---- MODULE Spec2Model ----
(***************************************************************************)
(* Primitive Modbus Utility (main.js, parse-enums.js).                     *)
(*                                                                         *)
(* JavaScript strings are modelled as sequences of one-character strings, *)
(* JavaScript numbers as records [nan, n]: NaN is [nan |-> TRUE, n |-> 0], *)
(* the integer k is [nan |-> FALSE, n |-> k].                              *)
(***************************************************************************)
EXTENDS Integers, Sequences, FiniteSets, TLC

VARIABLES
    ENDIANNESS,    \* config.js ENDIANNESS, fixed for the process lifetime
    NAMES,         \* register-names.json: the four per-class name tables
    pc,            \* "prompt", "awaitRead", "awaitWrite", "returned" or "closed"
    handler,       \* the handler that runs or ran last: "handleRead", "handleWrite", "none"
    functionCode,  \* function code the running handler was called with
    answer,        \* the line typed at the handler's prompt
    parts,         \* tokens of the line the running handler read
    calls,         \* transport calls issued by the running handler, in order
    resp,          \* how the awaited transport call settled
    out,           \* console output of the running handler, in order
    arg,           \* input of the pure function under check
    res            \* result(s) of the pure function under check

vars == <<ENDIANNESS, NAMES, pc, handler, functionCode, answer, parts, calls, resp, out, arg, res>>

(***************************************************************************)
(* Bounds of the model.                                                    *)
(***************************************************************************)
MaxTokens == 2     \* tokens on an input line
MaxResp == 2       \* values in a transport response
MaxEnumLines == 1  \* enum lines parse-enums.js reads per block

(***************************************************************************)
(* Numbers.                                                                *)
(***************************************************************************)
NaN == [nan |-> TRUE, n |-> 0]
Num(k) == [nan |-> FALSE, n |-> k]

\* JavaScript a + b for an integer b
Plus(a, b) == IF a.nan THEN NaN ELSE Num(a.n + b)

(***************************************************************************)
(* Strings.                                                                *)
(***************************************************************************)
LowerLetters == <<"a","b","c","d","e","f","g","h","i","j","k","l","m",
                  "n","o","p","q","r","s","t","u","v","w","x","y","z">>
UpperLetters == <<"A","B","C","D","E","F","G","H","I","J","K","L","M",
                  "N","O","P","Q","R","S","T","U","V","W","X","Y","Z">>
DigitChars == <<"0","1","2","3","4","5","6","7","8","9">>

IndexIn(c, s) == IF \E i \in DOMAIN s : s[i] = c
                 THEN CHOOSE i \in DOMAIN s : s[i] = c
                 ELSE 0

toUpperCase(s) ==
    [i \in DOMAIN s |-> IF IndexIn(s[i], LowerLetters) > 0
                        THEN UpperLetters[IndexIn(s[i], LowerLetters)]
                        ELSE s[i]]

toLowerCase(s) ==
    [i \in DOMAIN s |-> IF IndexIn(s[i], UpperLetters) > 0
                        THEN LowerLetters[IndexIn(s[i], UpperLetters)]
                        ELSE s[i]]

startsWith(s, p) == Len(s) >= Len(p) /\ SubSeq(s, 1, Len(p)) = p

slice(s, from) == SubSeq(s, from + 1, Len(s))

\* String.prototype.trim, for the one whitespace character the lines hold
RECURSIVE trimStart(_)
trimStart(s) == IF s # <<>> /\ Head(s) = " " THEN trimStart(Tail(s)) ELSE s

RECURSIVE trimEnd(_)
trimEnd(s) == IF s # <<>> /\ s[Len(s)] = " "
              THEN trimEnd(SubSeq(s, 1, Len(s) - 1)) ELSE s

trim(s) == trimEnd(trimStart(s))

\* String.prototype.split(/\s+/): cut at every run of whitespace
RECURSIVE splitWs(_, _)
splitWs(s, cur) ==
    IF s = <<>> THEN <<cur>>
    ELSE IF Head(s) = " "
         THEN <<cur>> \o splitWs(trimStart(s), <<>>)
         ELSE splitWs(Tail(s), Append(cur, Head(s)))

split(s) == splitWs(s, <<>>)

\* the value of character c as a digit, 36 when it is none
DigitVal(c) ==
    IF IndexIn(c, DigitChars) > 0 THEN IndexIn(c, DigitChars) - 1
    ELSE IF IndexIn(c, LowerLetters) > 0 THEN 9 + IndexIn(c, LowerLetters)
    ELSE IF IndexIn(c, UpperLetters) > 0 THEN 9 + IndexIn(c, UpperLetters)
    ELSE 36

\* length of the longest prefix of s made of digits of the radix
RECURSIVE DigitRun(_, _)
DigitRun(s, radix) ==
    IF s # <<>> /\ DigitVal(Head(s)) < radix
    THEN 1 + DigitRun(Tail(s), radix) ELSE 0

RECURSIVE DigitsValue(_, _, _)
DigitsValue(s, radix, acc) ==
    IF s = <<>> THEN acc
    ELSE DigitsValue(Tail(s), radix, acc * radix + DigitVal(Head(s)))

\* ECMAScript parseInt(string, radix) for radix 2, 10, 16
parseInt(str, radix) ==
    LET neg == str # <<>> /\ Head(str) = "-"
        s1 == IF str # <<>> /\ Head(str) \in {"-", "+"} THEN Tail(str) ELSE str
        s2 == IF radix = 16 /\ (startsWith(s1, <<"0","x">>) \/ startsWith(s1, <<"0","X">>))
              THEN slice(s1, 2) ELSE s1
        k == DigitRun(s2, radix)
        v == DigitsValue(SubSeq(s2, 1, k), radix, 0)
    IN IF k = 0 THEN NaN ELSE Num(IF neg THEN -v ELSE v)

\* Number.prototype.toString(radix)
RECURSIVE NatToString(_, _)
NatToString(k, radix) ==
    LET d == k % radix
        c == IF d < 10 THEN DigitChars[d + 1] ELSE LowerLetters[d - 9]
    IN IF k < radix THEN <<c>> ELSE Append(NatToString(k \div radix, radix), c)

toString(v, radix) ==
    IF v.nan THEN <<"N","a","N">>
    ELSE IF v.n < 0 THEN <<"-">> \o NatToString(-v.n, radix)
    ELSE NatToString(v.n, radix)

RECURSIVE padStart(_, _, _)
padStart(s, len, c) == IF Len(s) >= len THEN s ELSE padStart(<<c>> \o s, len, c)

(***************************************************************************)
(* String literals of the program.                                         *)
(***************************************************************************)
Str0x01 == <<"0","x","0","1">>
Str0x02 == <<"0","x","0","2">>
Str0x03 == <<"0","x","0","3">>
Str0x04 == <<"0","x","0","4">>
Str0x05 == <<"0","x","0","5">>
Str0x0f == <<"0","x","0","f">>
Str0x0F == <<"0","x","0","F">>
Str0x10 == <<"0","x","1","0">>
StrQuit == <<"q","u","i","t">>
StrBIG == <<"B","I","G">>
StrLITTLE == <<"L","I","T","T","L","E">>

(***************************************************************************)
(* main.js helpers.                                                        *)
(***************************************************************************)
parseValue(val) ==
    IF startsWith(val, <<"b">>) THEN parseInt(slice(val, 1), 2)
    ELSE IF startsWith(val, <<"0","x">>) \/ startsWith(val, <<"0","X">>)
         THEN parseInt(val, 16)
    ELSE parseInt(val, 10)

\* convertEndianness with upperByte written where lowerByte is shifted
convertEndiannessTypo(value) ==
    IF toUpperCase(ENDIANNESS) = StrLITTLE
    THEN LET v == IF value.nan THEN 0 ELSE value.n
             lowerByte == v % 256
             upperByte == (v \div 256) % 256
         IN Num(upperByte * 256 + upperByte)
    ELSE value

\* The bitwise operators work on ToInt32(value); & 0xff of it is value mod 256 and
\* (>> 8) & 0xff of it is floor(value / 256) mod 256 (2^32 is a multiple of 2^16);
\* ToInt32(NaN) is 0.
convertEndianness(value) ==
    IF toUpperCase(ENDIANNESS) = StrLITTLE
    THEN LET v == IF value.nan THEN 0 ELSE value.n
             lowerByte == v % 256
             upperByte == (v \div 256) % 256
         IN Num(lowerByte * 256 + upperByte)
    ELSE value

toHex(num) == <<"0","x">> \o toUpperCase(padStart(toString(num, 16), 4, "0"))

\* replace(/(.{4})/g, "$1 "): a space after every full group of four characters
RECURSIVE groupFour(_)
groupFour(s) == IF Len(s) < 4 THEN s
                ELSE SubSeq(s, 1, 4) \o <<" ">> \o groupFour(slice(s, 4))

toBinaryWithSpaces(num) == groupFour(padStart(toString(num, 2), 16, "0"))

\* String.prototype.replace(pattern, by) with a string pattern: first occurrence only
RECURSIVE replaceFirst(_, _, _)
replaceFirst(s, pat, by) ==
    IF Len(s) < Len(pat) THEN s
    ELSE IF startsWith(s, pat) THEN by \o slice(s, Len(pat))
    ELSE <<Head(s)>> \o replaceFirst(Tail(s), pat, by)

normalizeAddress(address) ==
    replaceFirst(toUpperCase(address), <<"0","X">>, <<"0","x">>)

\* A name table is [on, map]: on = FALSE is the JSON value false/null ("disabled"),
\* map is the JSON object; a missing key reads as undefined, which is falsy like "".
Lookup(table, key) ==
    IF table.on /\ key \in DOMAIN table.map THEN table.map[key] ELSE ""

getRegisterName(fc, addressHexIn) ==
    LET addressHex == normalizeAddress(addressHexIn)
    IN IF fc = Str0x01 THEN Lookup(NAMES.COIL_NAMES, addressHex)
       ELSE IF fc = Str0x02 THEN Lookup(NAMES.DISCRETE_INPUT_NAMES, addressHex)
       ELSE IF fc = Str0x03 THEN Lookup(NAMES.HOLDING_REGISTER_NAMES, addressHex)
       ELSE IF fc = Str0x04 THEN Lookup(NAMES.INPUT_REGISTER_NAMES, addressHex)
       ELSE ""

(***************************************************************************)
(* Inputs: what the operator types and how the transport settles a call.   *)
(***************************************************************************)
Tokens == { <<"1">>, <<"2">>, <<"0","x","A">>, <<"b","1","0">>, <<"z","z">>,
            <<"7","0","0","0","0">>, <<"-","1">> }

TokenSeqs == UNION { [1..k -> Tokens] : k \in 0..MaxTokens }

RECURSIVE Join(_)
Join(ts) == IF ts = <<>> THEN <<>>
            ELSE IF Len(ts) = 1 THEN ts[1]
            ELSE ts[1] \o <<" ">> \o Join(Tail(ts))

\* the typed lines: tokens separated by one space, with or without a trailing space
Lines == { Join(ts) : ts \in TokenSeqs } \cup { Join(ts) \o <<" ">> : ts \in TokenSeqs }

\* what the operator answers to "Enter function code: "
CodeInputs == { Str0x01, Str0x02, Str0x03, Str0x04, Str0x05, Str0x0f, Str0x0F,
                Str0x10, StrQuit, <<>> }

\* err.message of a rejected transport call
Messages == { "Timed out", "Port Not Open" }

\* 16-bit words a device returns
RawWords == { Num(255), Num(65535) }

SeqsUpTo(S, n) == UNION { [1..k -> S] : k \in 0..n }

BoolData == SeqsUpTo(BOOLEAN, MaxResp)
WordData == SeqsUpTo(RawWords, MaxResp)

NoResp == [kind |-> "none", msg |-> "", data |-> <<>>]
Resolved(data) == [kind |-> "resolve", msg |-> "", data |-> data]
Rejected(msg) == [kind |-> "reject", msg |-> msg, data |-> <<>>]

(***************************************************************************)
(* Console output and transport calls.                                     *)
(***************************************************************************)
ConsoleError(args) == [kind |-> "error", args |-> args]
ConsoleLog(args) == [kind |-> "log", args |-> args]
ConsoleTable(rows) == [kind |-> "table", args |-> rows]

Call(prim, address, a) == [prim |-> prim, address |-> address, arg |-> a]

DEFAULT_QUANTITY == 1

FUNCTION_NAMES(fc) ==
    IF fc = Str0x01 THEN "Read Coils"
    ELSE IF fc = Str0x02 THEN "Read Discrete Inputs"
    ELSE IF fc = Str0x03 THEN "Read Holding Registers"
    ELSE IF fc = Str0x04 THEN "Read Input Registers"
    ELSE IF fc = Str0x0F THEN "Write Multiple Coils"
    ELSE IF fc = Str0x10 THEN "Write Multiple Holding Registers"
    ELSE "undefined"

\* askQuestion without the trim
askQuestionNoTrim(line) == line

\* askQuestion resolves with the typed line, trimmed
askQuestion(line) == trim(line)

(***************************************************************************)
(* handleRead.                                                             *)
(***************************************************************************)
ReadCodes == { Str0x01, Str0x02, Str0x03, Str0x04 }

\* addrStr and qtyStr after the two defaults (an empty or missing token is falsy)
ReadAddrStr(p) == IF p[1] = <<>> THEN <<"0">> ELSE p[1]
ReadQtyStr(p) == IF Len(p) < 2 \/ p[2] = <<>>
                 THEN toString(Num(DEFAULT_QUANTITY), 10) ELSE p[2]

ReadStartAddress(p) == parseValue(ReadAddrStr(p))
ReadQuantity(p) == parseValue(ReadQtyStr(p))

ReadPrimitive(fc) ==
    IF fc = Str0x01 THEN "readCoils"
    ELSE IF fc = Str0x02 THEN "readDiscreteInputs"
    ELSE IF fc = Str0x03 THEN "readHoldingRegisters"
    ELSE "readInputRegisters"

\* Array.prototype.slice(0, end): end NaN counts as 0, a negative end counts from the back
sliceTo(data, end) ==
    LET len == Len(data)
        k == IF end.nan THEN 0
             ELSE IF end.n < 0 THEN (IF len + end.n < 0 THEN 0 ELSE len + end.n)
             ELSE IF end.n > len THEN len ELSE end.n
    IN SubSeq(data, 1, k)

BitRows(fc, startAddress, quantity, data) ==
    LET bits == sliceTo(data, quantity)
    IN [i \in 1..Len(bits) |->
          LET addressDec == Plus(startAddress, i - 1)
              addressHex == toHex(addressDec)
          IN [Reg |-> <<IF fc = Str0x01 THEN "C" ELSE "DI", Plus(addressDec, 1)>>,
              Addr |-> addressHex,
              Name |-> getRegisterName(fc, addressHex),
              Value |-> bits[i]]]

WordRows(fc, startAddress, quantity, data) ==
    [i \in 1..Len(data) |->
        LET addressDec == Plus(startAddress, i - 1)
            addressHex == toHex(addressDec)
            actualValue == convertEndianness(data[i])
        IN [Reg |-> <<IF fc = Str0x03 THEN "HR" ELSE "IR", Plus(addressDec, 1)>>,
            Addr |-> addressHex,
            Name |-> getRegisterName(fc, addressHex),
            Decimal |-> actualValue,
            Hex |-> toHex(actualValue),
            Binary |-> toBinaryWithSpaces(actualValue)]]

ReadRows(fc, startAddress, quantity, data) ==
    IF fc = Str0x01 \/ fc = Str0x02
    THEN BitRows(fc, startAddress, quantity, data)
    ELSE WordRows(fc, startAddress, quantity, data)

\* handleRead from its entry to the await of the transport call (or its early return)
handleReadBegin(fc, line) ==
    LET p == split(askQuestion(line))
    IN /\ pc = "prompt"
       /\ handler' = "handleRead"
       /\ functionCode' = fc
       /\ answer' = line
       /\ parts' = p
       /\ resp' = NoResp
       /\ IF fc \in ReadCodes
          THEN /\ calls' = <<Call(ReadPrimitive(fc), ReadStartAddress(p), ReadQuantity(p))>>
               /\ out' = <<>>
               /\ pc' = "awaitRead"
          ELSE /\ calls' = <<>>
               /\ out' = <<ConsoleError(<<"Unsupported read function code.">>)>>
               /\ pc' = "returned"
       /\ UNCHANGED <<ENDIANNESS, NAMES, arg, res>>

\* the awaited read resolves with data.data = data
handleReadResolve(data) ==
    /\ pc = "awaitRead"
    /\ resp' = Resolved(data)
    /\ out' = << ConsoleLog(<<FUNCTION_NAMES(functionCode), ReadQuantity(parts),
                              "registers from", toHex(ReadStartAddress(parts))>>),
                 ConsoleTable(ReadRows(functionCode, ReadStartAddress(parts),
                                       ReadQuantity(parts), data)) >>
    /\ pc' = "returned"
    /\ UNCHANGED <<ENDIANNESS, NAMES, handler, functionCode, answer, parts, calls, arg, res>>

\* the catch block of handleRead without err.message
handleReadRejectNoMessage(msg) ==
    /\ pc = "awaitRead"
    /\ resp' = Rejected(msg)
    /\ out' = <<ConsoleError(<<"Error reading data:", "">>)>>
    /\ pc' = "returned"
    /\ UNCHANGED <<ENDIANNESS, NAMES, handler, functionCode, answer, parts, calls, arg, res>>

\* the awaited read rejects: the catch block
handleReadReject(msg) ==
    /\ pc = "awaitRead"
    /\ resp' = Rejected(msg)
    /\ out' = <<ConsoleError(<<"Error reading data:", msg>>)>>
    /\ pc' = "returned"
    /\ UNCHANGED <<ENDIANNESS, NAMES, handler, functionCode, answer, parts, calls, arg, res>>

(***************************************************************************)
(* handleWrite.                                                            *)
(***************************************************************************)
WriteStartAddress(p) == parseValue(p[1])
WriteValues(p) == [i \in 1..(Len(p) - 1) |-> parseValue(p[i + 1])]

\* values.map((val) => val !== 0): NaN !== 0 is true
booleanVals(values) == [i \in DOMAIN values |-> values[i].nan \/ values[i].n # 0]
registerVals(values) == [i \in DOMAIN values |-> convertEndianness(values[i])]

\* handleWrite with a bare else in place of else if (functionCode === "0x10")
handleWriteBeginNoElse(fc, line) ==
    LET p == split(askQuestion(line))
    IN /\ pc = "prompt"
       /\ handler' = "handleWrite"
       /\ functionCode' = fc
       /\ answer' = line
       /\ parts' = p
       /\ resp' = NoResp
       /\ IF Len(p) < 2
          THEN /\ calls' = <<>>
               /\ out' = <<ConsoleError(<<"You must provide at least an address and one value.">>)>>
               /\ pc' = "returned"
          ELSE IF fc = Str0x0f
          THEN /\ calls' = <<Call("writeCoils", WriteStartAddress(p),
                                  booleanVals(WriteValues(p)))>>
               /\ out' = <<>>
               /\ pc' = "awaitWrite"
          ELSE /\ calls' = <<Call("writeRegisters", WriteStartAddress(p),
                                  registerVals(WriteValues(p)))>>
               /\ out' = <<>>
               /\ pc' = "awaitWrite"
       /\ UNCHANGED <<ENDIANNESS, NAMES, arg, res>>

\* handleWrite from its entry to the await of the transport call (or its early return)
handleWriteBegin(fc, line) ==
    LET p == split(askQuestion(line))
    IN /\ pc = "prompt"
       /\ handler' = "handleWrite"
       /\ functionCode' = fc
       /\ answer' = line
       /\ parts' = p
       /\ resp' = NoResp
       /\ IF Len(p) < 2
          THEN /\ calls' = <<>>
               /\ out' = <<ConsoleError(<<"You must provide at least an address and one value.">>)>>
               /\ pc' = "returned"
          ELSE IF fc = Str0x0f
          THEN /\ calls' = <<Call("writeCoils", WriteStartAddress(p),
                                  booleanVals(WriteValues(p)))>>
               /\ out' = <<>>
               /\ pc' = "awaitWrite"
          ELSE IF fc = Str0x10
          THEN /\ calls' = <<Call("writeRegisters", WriteStartAddress(p),
                                  registerVals(WriteValues(p)))>>
               /\ out' = <<>>
               /\ pc' = "awaitWrite"
          ELSE /\ calls' = <<>>
               /\ out' = <<ConsoleError(<<"Unsupported write function code.">>)>>
               /\ pc' = "returned"
       /\ UNCHANGED <<ENDIANNESS, NAMES, arg, res>>

\* the awaited write resolves
handleWriteResolve ==
    /\ pc = "awaitWrite"
    /\ resp' = Resolved(<<>>)
    /\ out' = <<ConsoleLog(<<IF functionCode = Str0x0f
                             THEN "Successfully wrote multiple coils."
                             ELSE "Successfully wrote multiple holding registers.">>)>>
    /\ pc' = "returned"
    /\ UNCHANGED <<ENDIANNESS, NAMES, handler, functionCode, answer, parts, calls, arg, res>>

\* the catch block of handleWrite sending the write again
handleWriteRejectRetry(msg) ==
    /\ pc = "awaitWrite"
    /\ resp' = Rejected(msg)
    /\ calls' = Append(calls, calls[Len(calls)])
    /\ out' = <<ConsoleError(<<"Error writing data:", msg>>)>>
    /\ pc' = "returned"
    /\ UNCHANGED <<ENDIANNESS, NAMES, handler, functionCode, answer, parts, arg, res>>

\* the awaited write rejects: the catch block
handleWriteReject(msg) ==
    /\ pc = "awaitWrite"
    /\ resp' = Rejected(msg)
    /\ out' = <<ConsoleError(<<"Error writing data:", msg>>)>>
    /\ pc' = "returned"
    /\ UNCHANGED <<ENDIANNESS, NAMES, handler, functionCode, answer, parts, calls, arg, res>>

(***************************************************************************)
(* mainLoop: one turn of the while loop, from the prompt to the handler.   *)
(***************************************************************************)
WriteCodes == { Str0x0f, Str0x10 }

funcCodeOf(line) == toLowerCase(askQuestion(line))

MainLoopQuit ==
    /\ pc = "prompt"
    /\ \E code \in CodeInputs :
        /\ funcCodeOf(code) = StrQuit
        /\ handler' = "none"
        /\ functionCode' = funcCodeOf(code)
        /\ answer' = <<>>
        /\ parts' = <<>>
        /\ calls' = <<>>
        /\ resp' = NoResp
        /\ out' = <<ConsoleLog(<<"Exiting...">>)>>
        /\ pc' = "closed"
        /\ UNCHANGED <<ENDIANNESS, NAMES, arg, res>>

MainLoopRead ==
    /\ pc = "prompt"
    /\ \E code \in CodeInputs, line \in Lines :
        /\ funcCodeOf(code) \in ReadCodes
        /\ handleReadBegin(funcCodeOf(code), line)

MainLoopWrite ==
    /\ pc = "prompt"
    /\ \E code \in CodeInputs, line \in Lines :
        /\ funcCodeOf(code) \in WriteCodes
        /\ handleWriteBegin(funcCodeOf(code), line)

MainLoopUnrecognized ==
    /\ pc = "prompt"
    /\ \E code \in CodeInputs :
        /\ funcCodeOf(code) \notin ReadCodes \cup WriteCodes \cup {StrQuit}
        /\ handler' = "none"
        /\ functionCode' = funcCodeOf(code)
        /\ answer' = <<>>
        /\ parts' = <<>>
        /\ calls' = <<>>
        /\ resp' = NoResp
        /\ out' = <<ConsoleError(<<"Unrecognized function code. Please try again.">>)>>
        /\ pc' = "returned"
        /\ UNCHANGED <<ENDIANNESS, NAMES, arg, res>>

\* the handler has returned (or the switch broke): the while loop comes round to its
\* prompt again; the finished operation's record is dropped
MainLoopIterate ==
    /\ pc = "returned"
    /\ pc' = "prompt"
    /\ handler' = "none"
    /\ functionCode' = <<>>
    /\ answer' = <<>>
    /\ parts' = <<>>
    /\ calls' = <<>>
    /\ resp' = NoResp
    /\ out' = <<>>
    /\ UNCHANGED <<ENDIANNESS, NAMES, arg, res>>

\* booleans for coils and discrete inputs, 16-bit words for registers
ReadData(fc) == IF fc \in {Str0x01, Str0x02} THEN BoolData ELSE WordData

ReadResolve == pc = "awaitRead" /\ \E data \in ReadData(functionCode) : handleReadResolve(data)
ReadReject == pc = "awaitRead" /\ \E msg \in Messages : handleReadReject(msg)
WriteResolve == handleWriteResolve
WriteReject == pc = "awaitWrite" /\ \E msg \in Messages : handleWriteReject(msg)

(***************************************************************************)
(* The program: main.js started with some config.js and register-names.json*)
(***************************************************************************)
NoTable == [on |-> FALSE, map |-> <<>>]
Table(keys, name) == [on |-> TRUE, map |-> [k \in keys |-> name]]

\* register-names.json files: none of the tables, or tables with canonical keys
NoNames == [COIL_NAMES |-> NoTable, DISCRETE_INPUT_NAMES |-> NoTable,
            HOLDING_REGISTER_NAMES |-> NoTable, INPUT_REGISTER_NAMES |-> NoTable]

NameFiles ==
    { NoNames,
      [COIL_NAMES |-> Table({<<"0","x","0","0","0","1">>}, "PUMP"),
       DISCRETE_INPUT_NAMES |-> NoTable,
       HOLDING_REGISTER_NAMES |-> Table({<<"0","x","0","0","0","A">>}, "SETPOINT"),
       INPUT_REGISTER_NAMES |-> Table({}, "")] }

Init ==
    /\ ENDIANNESS \in {StrBIG, StrLITTLE}
    /\ NAMES \in NameFiles
    /\ pc = "prompt"
    /\ handler = "none"
    /\ functionCode = <<>>
    /\ answer = <<>>
    /\ parts = <<>>
    /\ calls = <<>>
    /\ resp = NoResp
    /\ out = <<>>
    /\ arg = <<>>
    /\ res = <<>>

Next ==
    \/ MainLoopQuit
    \/ MainLoopRead
    \/ MainLoopWrite
    \/ MainLoopUnrecognized
    \/ MainLoopIterate
    \/ ReadResolve
    \/ ReadReject
    \/ WriteResolve
    \/ WriteReject

Spec == Init /\ [][Next]_vars

(***************************************************************************)
(* The handlers entered directly, as the entry points of the access layer: *)
(* any function code may be passed, mainLoop's switch is not in the way.   *)
(***************************************************************************)
EntryCodes == CodeInputs \ {StrQuit, <<>>}

EntryRead ==
    /\ pc = "prompt"
    /\ \E fc \in EntryCodes, line \in Lines : handleReadBegin(fc, line)

EntryWrite ==
    /\ pc = "prompt"
    /\ \E fc \in EntryCodes, line \in Lines : handleWriteBegin(fc, line)

\* the caller is ready for its next call
EntryReturn == MainLoopIterate

NextEntry ==
    \/ EntryRead
    \/ EntryWrite
    \/ EntryReturn
    \/ ReadResolve
    \/ ReadReject
    \/ WriteResolve
    \/ WriteReject

SpecEntry == Init /\ [][NextEntry]_vars

(***************************************************************************)
(* convertEndianness applied once and then again to a 16-bit word.         *)
(***************************************************************************)
Words == 0..65535

InitCodec ==
    /\ ENDIANNESS \in {StrBIG, StrLITTLE}
    /\ NAMES = NoNames
    /\ pc = "codec"
    /\ handler = "none"
    /\ functionCode = <<>>
    /\ answer = <<>>
    /\ parts = <<>>
    /\ calls = <<>>
    /\ resp = NoResp
    /\ out = <<>>
    /\ arg \in { Num(x) : x \in Words }
    /\ res = <<>>

ConvertOnce ==
    /\ pc = "codec"
    /\ res = <<>>
    /\ res' = <<convertEndianness(arg)>>
    /\ UNCHANGED <<ENDIANNESS, NAMES, pc, handler, functionCode, answer, parts, calls,
                   resp, out, arg>>

ConvertAgain ==
    /\ pc = "codec"
    /\ Len(res) = 1
    /\ res' = Append(res, convertEndianness(res[1]))
    /\ UNCHANGED <<ENDIANNESS, NAMES, pc, handler, functionCode, answer, parts, calls,
                   resp, out, arg>>

NextCodec == ConvertOnce \/ ConvertAgain

SpecCodec == InitCodec /\ [][NextCodec]_vars

\* C1: for every x in 0..65535 and in both endianness modes, converting x and then
\* converting the result gives x back.
C1_ConvertTwiceIsIdentity == Len(res) = 2 => res[2] = arg

\* a word whose two bytes differ has been swapped and swapped back in LITTLE mode
C1_Witness ==
    /\ Len(res) = 2
    /\ ENDIANNESS = StrLITTLE
    /\ arg = Num(255)
    /\ res[1] = Num(65280)

(***************************************************************************)
(* parse-enums.js writes register-names.json, main.js then resolves names. *)
(* An enum line is modelled by its lexical pieces: [name, eq, value] is    *)
(* "name = value," when eq, and the bare enumerator "name" otherwise.      *)
(***************************************************************************)
HexDigitChars == { DigitChars[i] : i \in DOMAIN DigitChars }
                 \cup { LowerLetters[i] : i \in 1..6 } \cup { UpperLetters[i] : i \in 1..6 }

\* lineRegex /^(\w+)\s*=\s*(0x[0-9A-Fa-f]+)\s*(,|\/|$)/ on the value of the line
lineMatch(line) ==
    /\ line.eq
    /\ startsWith(line.value, <<"0","x">>)
    /\ Len(line.value) > 2
    /\ \A i \in 3..Len(line.value) : line.value[i] \in HexDigitChars

RECURSIVE enumMapOf(_, _)
enumMapOf(lines, enumMap) ==
    IF lines = <<>> THEN enumMap
    ELSE LET line == Head(lines)
         IN enumMapOf(Tail(lines),
                      IF lineMatch(line)
                      THEN (line.value :> line.name) @@ enumMap
                      ELSE enumMap)

\* text is [found, lines]: whether the enum's block is in the file, and its lines
parseEnumBlock(text) ==
    IF ~text.found THEN NoTable
    ELSE [on |-> TRUE, map |-> enumMapOf(text.lines, <<>>)]

EnumLines ==
    { [name |-> "SETPOINT", eq |-> TRUE, value |-> <<"0","x","0","0","0","A">>],
      [name |-> "SETPOINT", eq |-> TRUE, value |-> <<"0","x","0","0","0","a">>],
      [name |-> "SETPOINT", eq |-> TRUE, value |-> <<"0","X","0","0","0","A">>],
      [name |-> "HR_MAX", eq |-> FALSE, value |-> <<>>] }

EnumTexts ==
    { [found |-> FALSE, lines |-> <<>>] }
    \cup { [found |-> TRUE, lines |-> ls] : ls \in SeqsUpTo(EnumLines, MaxEnumLines) }

InitNames ==
    /\ ENDIANNESS = StrBIG
    /\ NAMES = NoNames
    /\ pc = "parseEnums"
    /\ handler = "none"
    /\ functionCode = <<>>
    /\ answer = <<>>
    /\ parts = <<>>
    /\ calls = <<>>
    /\ resp = NoResp
    /\ out = <<>>
    /\ arg = <<>>
    /\ res = <<>>

buildRegisterNames ==
    /\ pc = "parseEnums"
    /\ \E di \in EnumTexts, c \in EnumTexts, hr \in EnumTexts, ir \in EnumTexts :
          NAMES' = [DISCRETE_INPUT_NAMES |-> parseEnumBlock(di),
                    COIL_NAMES |-> parseEnumBlock(c),
                    HOLDING_REGISTER_NAMES |-> parseEnumBlock(hr),
                    INPUT_REGISTER_NAMES |-> parseEnumBlock(ir)]
    /\ pc' = "names"
    /\ UNCHANGED <<ENDIANNESS, handler, functionCode, answer, parts, calls, resp, out,
                   arg, res>>

Addresses == {1, 10}

\* a row of a read is given its name: getRegisterName(functionCode, toHex(addressDec))
ResolveName ==
    /\ pc = "names"
    /\ \E fc \in ReadCodes, a \in Addresses :
          /\ arg' = <<fc, Num(a)>>
          /\ res' = <<getRegisterName(fc, toHex(Num(a)))>>
    /\ UNCHANGED <<ENDIANNESS, NAMES, pc, handler, functionCode, answer, parts, calls,
                   resp, out>>

NextNames == buildRegisterNames \/ ResolveName

SpecNames == InitNames /\ [][NextNames]_vars

(***************************************************************************)
(* Properties.                                                             *)
(***************************************************************************)
\* number of whitespace-separated tokens on a typed line
RECURSIVE dropToken(_)
dropToken(line) == IF line = <<>> \/ Head(line) = " " THEN line ELSE dropToken(Tail(line))

RECURSIVE TokenCount(_)
TokenCount(line) ==
    IF line = <<>> THEN 0
    ELSE IF Head(line) = " " THEN TokenCount(Tail(line))
    ELSE 1 + TokenCount(dropToken(line))

IsUint16(v) == ~v.nan /\ v.n >= 0 /\ v.n <= 65535

\* the rows of the table the finished read printed (none when it printed no table)
PrintedRows == IF \E i \in DOMAIN out : out[i].kind = "table"
               THEN out[CHOOSE i \in DOMAIN out : out[i].kind = "table"].args
               ELSE <<>>

PrintedTable == \E i \in DOMAIN out : out[i].kind = "table"
PrintedError == \E i \in DOMAIN out : out[i].kind = "error"

\* the running or finished operation is a read / a write past its token-count check
InRead == handler = "handleRead" /\ functionCode \in ReadCodes
InWrite == handler = "handleWrite" /\ functionCode \in WriteCodes /\ Len(parts) >= 2

\* C2: when a token of a read or write fails numeric parsing (NaN), the operation
\* reports an error and issues no transport call.
C2_NaNIsRejected ==
    LET badRead == InRead /\ (ReadStartAddress(parts).nan \/ ReadQuantity(parts).nan)
        badWrite == InWrite /\ (\/ WriteStartAddress(parts).nan
                                \/ \E i \in DOMAIN WriteValues(parts) : WriteValues(parts)[i].nan)
    IN (badRead \/ badWrite) =>
          /\ calls = <<>>
          /\ pc = "returned"
          /\ PrintedError

\* C3: a read whose response holds at least quantity values prints exactly quantity
\* rows, at the addresses startAddress .. startAddress + quantity - 1.
C3_RowsAreExactlyQuantity ==
    LET q == ReadQuantity(parts)
        a == ReadStartAddress(parts)
    IN (/\ InRead /\ pc = "returned" /\ resp.kind = "resolve"
        /\ ~q.nan /\ ~a.nan /\ q.n >= 0 /\ Len(resp.data) >= q.n) =>
          /\ PrintedTable
          /\ Len(PrintedRows) = q.n
          /\ \A i \in DOMAIN PrintedRows : PrintedRows[i].Addr = toHex(Num(a.n + i - 1))

\* C4: a read whose response holds fewer than quantity values is reported as an
\* error and prints no table.
C4_ShortReadIsAnError ==
    LET q == ReadQuantity(parts)
    IN (/\ InRead /\ pc = "returned" /\ resp.kind = "resolve"
        /\ ~q.nan /\ Len(resp.data) < q.n) =>
          /\ PrintedError
          /\ ~PrintedTable

\* C5: when the awaited transport call of a read or write is rejected, the handler
\* prints exactly one thing, an error carrying the rejection's message: no table, no
\* row, no success line.
C5_RejectionPrintsOnlyTheError ==
    (pc = "returned" /\ resp.kind = "reject") =>
        /\ Len(out) = 1
        /\ out[1].kind = "error"
        /\ out[1].args = <<IF handler = "handleRead" THEN "Error reading data:"
                           ELSE "Error writing data:", resp.msg>>

C5_Witness ==
    /\ pc = "returned"
    /\ resp.kind = "reject"
    /\ handler = "handleRead"
    /\ functionCode = Str0x03
    /\ Len(calls) = 1

\* a function code that is, in no casing, one of the six supported ones
Unsupported(fc) == toLowerCase(fc) \notin ReadCodes \cup WriteCodes

UnsupportedText == IF handler = "handleRead" THEN "Unsupported read function code."
                   ELSE "Unsupported write function code."

\* C6 as stated: a handler entered with an unsupported function code issues no
\* transport call and prints the unsupported-function-code error.
C6_UnsupportedAlwaysReported ==
    (handler # "none" /\ Unsupported(functionCode)) =>
        /\ pc = "returned"
        /\ calls = <<>>
        /\ Len(out) = 1
        /\ out[1].kind = "error"
        /\ out[1].args = <<UnsupportedText>>

\* C6 as amended: a handler entered with an unsupported function code issues no
\* transport call and prints one error: the unsupported-function-code error, except
\* that handleWrite given fewer than two tokens prints its missing-value error instead.
C6_UnsupportedNeverCalls ==
    (handler # "none" /\ Unsupported(functionCode)) =>
        /\ pc = "returned"
        /\ calls = <<>>
        /\ Len(out) = 1
        /\ out[1].kind = "error"
        /\ out[1].args = <<IF handler = "handleWrite" /\ TokenCount(answer) < 2
                           THEN "You must provide at least an address and one value."
                           ELSE UnsupportedText>>

C6_Witness ==
    /\ handler = "handleWrite"
    /\ functionCode = Str0x05
    /\ TokenCount(answer) = 2
    /\ pc = "returned"
    /\ out = <<ConsoleError(<<"Unsupported write function code.">>)>>

\* C7: a write whose line holds an address token and no value token is rejected with
\* the missing-value error and issues no transport call.
C7_WriteWithoutValuesIsRejected ==
    (handler = "handleWrite" /\ functionCode \in WriteCodes /\ TokenCount(answer) = 1) =>
        /\ pc = "returned"
        /\ calls = <<>>
        /\ Len(out) = 1
        /\ out[1].kind = "error"
        /\ out[1].args = <<"You must provide at least an address and one value.">>

C7_Witness ==
    /\ handler = "handleWrite"
    /\ functionCode = Str0x10
    /\ answer = <<"1", " ">>
    /\ pc = "returned"

\* C8: an operation issues at most one transport call, and a call is issued only as a
\* new operation begins at the prompt: never while a call is awaited, never after one
\* has settled (resolved or rejected).
C8_NoRetry ==
    [][ /\ Len(calls') <= 1
        /\ (calls' # calls /\ calls' # <<>>) => pc = "prompt" ]_vars

C8_Witness ==
    /\ pc = "returned"
    /\ handler = "handleWrite"
    /\ functionCode = Str0x10
    /\ resp.kind = "reject"
    /\ Len(calls) = 1

\* C9: for integer inputs, every value a holding-register write transmits and every
\* value a register read displays is within 0..65535.
C9_RegisterValuesAre16Bit ==
    /\ (InWrite /\ \A i \in DOMAIN WriteValues(parts) : ~WriteValues(parts)[i].nan) =>
          \A c \in DOMAIN calls :
              calls[c].prim = "writeRegisters" =>
                  \A i \in DOMAIN calls[c].arg : IsUint16(calls[c].arg[i])
    /\ (InRead /\ functionCode \in {Str0x03, Str0x04} /\ PrintedTable) =>
          \A i \in DOMAIN PrintedRows : IsUint16(PrintedRows[i].Decimal)

\* the name table main.js consults for a function code
TableOf(fc) ==
    IF fc = Str0x01 THEN NAMES.COIL_NAMES
    ELSE IF fc = Str0x02 THEN NAMES.DISCRETE_INPUT_NAMES
    ELSE IF fc = Str0x03 THEN NAMES.HOLDING_REGISTER_NAMES
    ELSE NAMES.INPUT_REGISTER_NAMES

\* the keys of a table that denote address a, in whatever casing
KeysFor(table, a) ==
    { k \in DOMAIN table.map : toUpperCase(k) = toUpperCase(toHex(a)) }

\* C10: resolving (class, address) gives the name bound to the key that denotes the
\* address whatever the key's casing, and "" when the table is absent or has no such key.
C10_ResolveIgnoresKeyCasing ==
    (pc = "names" /\ Len(res) = 1) =>
        LET table == TableOf(arg[1])
        IN IF table.on /\ KeysFor(table, arg[2]) # {}
           THEN res[1] \in { table.map[k] : k \in KeysFor(table, arg[2]) }
           ELSE res[1] = ""

\* the display prefix of a register class
PrefixOf(fc) ==
    IF fc = Str0x01 THEN "C"
    ELSE IF fc = Str0x02 THEN "DI"
    ELSE IF fc = Str0x03 THEN "HR"
    ELSE "IR"

\* row i (1-based) of the printed table sits at address a + i - 1, carries the id
\* prefix + (a + i), and shows the i-th value the transport delivered
RowIsIndexed(rows, a, i) ==
    /\ rows[i].Addr = toHex(Plus(a, i - 1))
    /\ rows[i].Reg[1] = PrefixOf(functionCode)
    /\ rows[i].Reg[2] = Plus(a, i)
    /\ IF functionCode \in {Str0x01, Str0x02}
       THEN rows[i].Value = resp.data[i]
       ELSE rows[i].Decimal = convertEndianness(resp.data[i])

\* the rows' addresses are numbers that grow strictly from one row to the next
RowsAscend(rows) ==
    \A i \in DOMAIN rows : \A j \in DOMAIN rows :
        i < j => /\ ~rows[i].Reg[2].nan
                 /\ ~rows[j].Reg[2].nan
                 /\ rows[i].Reg[2].n < rows[j].Reg[2].n
                 /\ rows[i].Addr # rows[j].Addr

\* C11: for every read, the row at 0-based index i has address toHex(startAddress + i)
\* and id prefix + (startAddress + i + 1), and the rows come in the transport's order,
\* in strictly ascending address order.
C11_RowsIndexedAndAscending ==
    (InRead /\ pc = "returned" /\ resp.kind = "resolve") =>
        /\ \A i \in DOMAIN PrintedRows :
              RowIsIndexed(PrintedRows, ReadStartAddress(parts), i)
        /\ RowsAscend(PrintedRows)

\* the same for the reads whose address token parsed to a number
C11_NumericAddressRowsAscend ==
    (InRead /\ pc = "returned" /\ resp.kind = "resolve"
       /\ ~ReadStartAddress(parts).nan) =>
        /\ \A i \in DOMAIN PrintedRows :
              RowIsIndexed(PrintedRows, ReadStartAddress(parts), i)
        /\ RowsAscend(PrintedRows)

====
